---- MODULE Spec2Model ----
(***************************************************************************)
(* Model of the LangGraph JSON rules validator (src/json_validator.py).    *)
(*                                                                         *)
(* One JSONValidator object serves the calls in Calls.  Every call of      *)
(* validate_json builds its own ValidationState and runs the compiled      *)
(* graph schema_validation -> (semantic_validation) -> final_assessment.   *)
(* The steps of different calls interleave freely.                         *)
(*                                                                         *)
(* Python values are tagged records, so that a value coming back from the  *)
(* external judge (any JSON shape) can sit in the state exactly as the     *)
(* code stores it, and len(), truthiness and str.join() behave on it as    *)
(* they do in Python, TypeError included.                                  *)
(***************************************************************************)
EXTENDS Integers, Sequences, FiniteSets, TLC

VARIABLES
    state,      \* state[c]: the ValidationState dict of call c
    pc,         \* pc[c]: the graph node call c runs next, "END", or "raised"
    llm_calls,  \* llm_calls[c]: the self.llm.invoke calls made by call c, in order
    escaped,    \* escaped[c]: the exception that left validate_json, or "none"
    trail       \* trail[c]: state[c]["status"] at the start and after every node run

vars == <<state, pc, llm_calls, escaped, trail>>

\* The validate_json calls in flight on the one validator.
Calls == {1, 2}

\* Longest custom_rules list the caller passes.
MaxRules == 1

-----------------------------------------------------------------------------
(* Python values *)

PyStr(s) == [t |-> "str", s |-> s]
PyInt(n) == [t |-> "int", n |-> n]
PyBool(b) == [t |-> "bool", b |-> b]
PyNone == [t |-> "NoneType"]
PyList(items) == [t |-> "list", items |-> items]
\* A dict keeps its insertion order: a sequence of <<key, value>> pairs.
PyDict(pairs) == [t |-> "dict", pairs |-> pairs]

StrList(strs) == PyList([i \in DOMAIN strs |-> PyStr(strs[i])])

\* The characters of the str values that a join iterates over.
Chars(s) ==
    CASE s = "" -> <<>>
      [] s = "no" -> <<"n", "o">>

\* bool(v)
py_truthy(v) ==
    CASE v.t = "bool" -> v.b
      [] v.t = "int" -> v.n # 0
      [] v.t = "str" -> v.s # ""
      [] v.t = "list" -> Len(v.items) > 0
      [] v.t = "dict" -> Len(v.pairs) > 0
      [] OTHER -> FALSE

\* len(v): TypeError for a value that has no length.
py_len(v) ==
    CASE v.t = "list" -> [exc |-> "none", value |-> Len(v.items)]
      [] v.t = "str" -> [exc |-> "none", value |-> Len(v.s)]
      [] v.t = "dict" -> [exc |-> "none", value |-> Len(v.pairs)]
      [] OTHER -> [exc |-> "TypeError"]

RECURSIVE JoinStrs(_, _)
JoinStrs(sep, strs) ==
    IF Len(strs) = 0 THEN ""
    ELSE IF Len(strs) = 1 THEN strs[1]
    ELSE strs[1] \o sep \o JoinStrs(sep, Tail(strs))

\* sep.join(v): the items of a list must all be str; a str is joined
\* character by character, a dict by its keys; anything else is a TypeError.
py_join(sep, v) ==
    CASE v.t = "list" ->
            IF \A i \in DOMAIN v.items : v.items[i].t = "str"
            THEN [exc |-> "none",
                  value |-> JoinStrs(sep, [i \in DOMAIN v.items |-> v.items[i].s])]
            ELSE [exc |-> "TypeError"]
      [] v.t = "str" -> [exc |-> "none", value |-> JoinStrs(sep, Chars(v.s))]
      [] v.t = "dict" ->
            [exc |-> "none",
             value |-> JoinStrs(sep, [i \in DOMAIN v.pairs |-> v.pairs[i][1]])]
      [] OTHER -> [exc |-> "TypeError"]

HasKey(d, k) == \E i \in DOMAIN d.pairs : d.pairs[i][1] = k

\* Mutant: dict.get ignores the default and answers None for a missing key.
dict_get_no_default(d, k, default) ==
    IF d.t # "dict" THEN [exc |-> "AttributeError"]
    ELSE IF HasKey(d, k)
    THEN [exc |-> "none",
          value |-> d.pairs[CHOOSE i \in DOMAIN d.pairs : d.pairs[i][1] = k][2]]
    ELSE [exc |-> "none", value |-> PyNone]

\* dict.get(k, default); only a dict has the method.
dict_get(d, k, default) ==
    IF d.t # "dict" THEN [exc |-> "AttributeError"]
    ELSE IF HasKey(d, k)
    THEN [exc |-> "none",
          value |-> d.pairs[CHOOSE i \in DOMAIN d.pairs : d.pairs[i][1] = k][2]]
    ELSE [exc |-> "none", value |-> default]

\* str(e) of the AttributeError raised by <value>.get
NoGetMessage(v) == "'" \o v.t \o "' object has no attribute 'get'"

-----------------------------------------------------------------------------
(* ValidationStatus *)

PENDING == "pending"
SCHEMA_VALID == "schema_valid"
SCHEMA_INVALID == "schema_invalid"
SEMANTIC_VALID == "semantic_valid"
SEMANTIC_INVALID == "semantic_invalid"
COMPLETE == "complete"

ValidationStatus ==
    {PENDING, SCHEMA_VALID, SCHEMA_INVALID, SEMANTIC_VALID, SEMANTIC_INVALID, COMPLETE}

-----------------------------------------------------------------------------
(* The request: documents, schemas, rule lists *)

\* A document is a JSON object: a function from its keys to Python values.
\* Its values are JSON values, so json.dumps of it, in the prompt, cannot fail.
ValidDoc == [id |-> PyInt(123), name |-> PyStr("John Doe")]
\* Two violations at once: the id is no integer and the name is empty.
InvalidDoc == [id |-> PyStr("not_a_number"), name |-> PyStr("")]
MissingFieldDoc == [id |-> PyInt(123)]

Documents == {ValidDoc, InvalidDoc, MissingFieldDoc}

\* A cut of create_sample_schema: typed properties, a length limit, required keys.
SampleSchema ==
    [type |-> "object",
     properties |-> <<[key |-> "id", type |-> "integer"],
                      [key |-> "name", type |-> "string", minLength |-> 1]>>,
     required |-> <<"id", "name">>]
\* A schema the checker cannot interpret: "type" names no JSON type.
MalformedSchema == [type |-> "bogus", properties |-> <<>>, required |-> <<>>]

\* A schema that constrains nothing but the document's type.
OpenSchema == [type |-> "object", properties |-> <<>>, required |-> <<>>]

Schemas == {SampleSchema, OpenSchema, MalformedSchema}

Rules == {"Version should follow semantic versioning format (e.g., 1.0.0)"}

RuleLists == UNION {[1..n -> Rules] : n \in 0..MaxRules}

-----------------------------------------------------------------------------
(* jsonschema.validate, as far as the schemas above use it *)

JsonTypes == {"object", "string", "integer", "array", "number", "boolean", "null"}

\* The JSON type name of a Python value.
IsOfType(v, type) ==
    CASE type = "integer" -> v.t = "int"
      [] type = "string" -> v.t = "str"
      [] type = "boolean" -> v.t = "bool"
      [] type = "array" -> v.t = "list"
      [] type = "object" -> v.t = "dict"
      [] type = "null" -> v.t = "NoneType"
      [] OTHER -> FALSE

\* repr(v) as the violation messages quote it.
Repr(v) ==
    CASE v.t = "str" -> "'" \o v.s \o "'"
      [] v.t = "int" -> ToString(v.n)
      [] OTHER -> "<" \o v.t \o ">"

\* The violations of one property schema by the document, in keyword order.
PropertyErrors(instance, p) ==
    IF p.key \notin DOMAIN instance THEN <<>>
    ELSE LET v == instance[p.key]
         IN  (IF IsOfType(v, p.type) THEN <<>>
              ELSE <<Repr(v) \o " is not of type '" \o p.type \o "'">>)
             \o
             (IF "minLength" \in DOMAIN p /\ v.t = "str" /\ Len(v.s) < p.minLength
              THEN <<Repr(v) \o " is too short">>
              ELSE <<>>)

RECURSIVE AllPropertyErrors(_, _)
AllPropertyErrors(instance, props) ==
    IF props = <<>> THEN <<>>
    ELSE PropertyErrors(instance, Head(props)) \o AllPropertyErrors(instance, Tail(props))

RECURSIVE RequiredErrors(_, _)
RequiredErrors(instance, required) ==
    IF required = <<>> THEN <<>>
    ELSE (IF Head(required) \in DOMAIN instance THEN <<>>
          ELSE <<"'" \o Head(required) \o "' is a required property">>)
         \o RequiredErrors(instance, Tail(required))

\* iter_errors: the violations at the root come before those below it, the
\* order in which best_match ranks them.
iter_errors(instance, schema) ==
    (IF schema.type = "object" THEN <<>>
     ELSE <<"the document is not of type '" \o schema.type \o "'">>)
    \o RequiredErrors(instance, schema.required)
    \o AllPropertyErrors(instance, schema.properties)

\* validate(instance=, schema=): check_schema raises SchemaError on a schema
\* that is no schema; otherwise the best violation is raised as ValidationError.
validate(instance, schema) ==
    IF schema.type \notin JsonTypes
    THEN [exc |-> "SchemaError",
          msg |-> "'" \o schema.type \o "' is not valid under any of the given schemas"]
    ELSE LET errors == iter_errors(instance, schema)
         IN  IF errors = <<>> THEN [exc |-> "none"]
             ELSE [exc |-> "ValidationError", msg |-> errors[1]]

-----------------------------------------------------------------------------
(* The external judge, self.llm *)

\* The texts the judge may answer with.
Payloads ==
    {"{\"is_valid\": true, \"errors\": []}",
     "{\"is_valid\": true, \"errors\": [\"ignored\"], \"warnings\": [\"old format\"]}",
     "{\"is_valid\": \"yes\", \"errors\": []}",
     "{\"is_valid\": false, \"errors\": [\"Version is not semantic\"]}",
     "{\"is_valid\": false, \"errors\": [\"e1\", \"e2\"]}",
     "{\"is_valid\": false, \"errors\": []}",
     "{\"is_valid\": false}",
     "{\"errors\": [\"e1\"]}",
     "{}",
     "{\"errors\": 5}",
     "{\"is_valid\": false, \"errors\": 5}",
     "{\"is_valid\": false, \"errors\": null}",
     "{\"is_valid\": false, \"errors\": [1]}",
     "{\"is_valid\": false, \"errors\": \"no\"}",
     "{\"is_valid\": false, \"errors\": \"\"}",
     "[true]",
     "null",
     "The JSON looks valid to me."}

\* What self.llm.invoke(messages) may do: raise, or return a message whose
\* content is a text or (a list of content blocks) not a text at all.
JudgeBehaviours ==
    {[kind |-> "raise", msg |-> "Connection error."]}
    \cup {[kind |-> "message", content |-> PyStr(p)] : p \in Payloads}
    \cup {[kind |-> "message", content |-> PyList(<<>>)]}

\* json.loads(content) on the texts above; a text that is no JSON raises
\* JSONDecodeError, a content that is no text raises TypeError.
json_loads(content) ==
    IF content.t # "str"
    THEN [exc |-> "TypeError",
          msg |-> "the JSON object must be str, bytes or bytearray, not " \o content.t]
    ELSE LET ok(v) == [exc |-> "none", value |-> v]
             p == content.s
         IN  CASE p = "{\"is_valid\": true, \"errors\": []}" ->
                    ok(PyDict(<< <<"is_valid", PyBool(TRUE)>>, <<"errors", PyList(<<>>)>> >>))
               [] p = "{\"is_valid\": true, \"errors\": [\"ignored\"], \"warnings\": [\"old format\"]}" ->
                    ok(PyDict(<< <<"is_valid", PyBool(TRUE)>>,
                                 <<"errors", StrList(<<"ignored">>)>>,
                                 <<"warnings", StrList(<<"old format">>)>> >>))
               [] p = "{\"is_valid\": \"yes\", \"errors\": []}" ->
                    ok(PyDict(<< <<"is_valid", PyStr("yes")>>, <<"errors", PyList(<<>>)>> >>))
               [] p = "{\"is_valid\": false, \"errors\": [\"Version is not semantic\"]}" ->
                    ok(PyDict(<< <<"is_valid", PyBool(FALSE)>>,
                                 <<"errors", StrList(<<"Version is not semantic">>)>> >>))
               [] p = "{\"is_valid\": false, \"errors\": [\"e1\", \"e2\"]}" ->
                    ok(PyDict(<< <<"is_valid", PyBool(FALSE)>>,
                                 <<"errors", StrList(<<"e1", "e2">>)>> >>))
               [] p = "{\"is_valid\": false, \"errors\": []}" ->
                    ok(PyDict(<< <<"is_valid", PyBool(FALSE)>>, <<"errors", PyList(<<>>)>> >>))
               [] p = "{\"is_valid\": false}" ->
                    ok(PyDict(<< <<"is_valid", PyBool(FALSE)>> >>))
               [] p = "{\"errors\": [\"e1\"]}" ->
                    ok(PyDict(<< <<"errors", StrList(<<"e1">>)>> >>))
               [] p = "{}" ->
                    ok(PyDict(<<>>))
               [] p = "{\"errors\": 5}" ->
                    ok(PyDict(<< <<"errors", PyInt(5)>> >>))
               [] p = "{\"is_valid\": false, \"errors\": 5}" ->
                    ok(PyDict(<< <<"is_valid", PyBool(FALSE)>>, <<"errors", PyInt(5)>> >>))
               [] p = "{\"is_valid\": false, \"errors\": null}" ->
                    ok(PyDict(<< <<"is_valid", PyBool(FALSE)>>, <<"errors", PyNone>> >>))
               [] p = "{\"is_valid\": false, \"errors\": [1]}" ->
                    ok(PyDict(<< <<"is_valid", PyBool(FALSE)>>,
                                 <<"errors", PyList(<<PyInt(1)>>)>> >>))
               [] p = "{\"is_valid\": false, \"errors\": \"no\"}" ->
                    ok(PyDict(<< <<"is_valid", PyBool(FALSE)>>, <<"errors", PyStr("no")>> >>))
               [] p = "{\"is_valid\": false, \"errors\": \"\"}" ->
                    ok(PyDict(<< <<"is_valid", PyBool(FALSE)>>, <<"errors", PyStr("")>> >>))
               [] p = "[true]" ->
                    ok(PyList(<<PyBool(TRUE)>>))
               [] p = "null" ->
                    ok(PyNone)
               [] OTHER -> [exc |-> "JSONDecodeError"]

-----------------------------------------------------------------------------
(* The graph nodes built by _build_workflow *)

\* Mutant: the ValidationError handler marks the state and records no message.
schema_validation_node_drops_message(s) ==
    LET r == validate(s.json_data, s.schema)
    IN  CASE r.exc = "none" ->
                [s EXCEPT !.status = SCHEMA_VALID, !.schema_errors = PyList(<<>>)]
          [] r.exc = "ValidationError" ->
                [s EXCEPT !.status = SCHEMA_INVALID]
          [] OTHER ->
                [s EXCEPT !.status = SCHEMA_INVALID,
                          !.schema_errors =
                              StrList(<<"Schema validation error: " \o r.msg>>)]

\* Mutant: a fault of the checker itself is taken for a pass.
schema_validation_node_fault_passes(s) ==
    LET r == validate(s.json_data, s.schema)
    IN  CASE r.exc = "none" ->
                [s EXCEPT !.status = SCHEMA_VALID, !.schema_errors = PyList(<<>>)]
          [] r.exc = "ValidationError" ->
                [s EXCEPT !.status = SCHEMA_INVALID,
                          !.schema_errors = StrList(<<r.msg>>)]
          [] OTHER ->
                [s EXCEPT !.status = SCHEMA_VALID,
                          !.schema_errors =
                              StrList(<<"Schema validation error: " \o r.msg>>)]

\* Mutant: the messages go to one list kept on the validator, which every
\* call appends to.
schema_validation_node_accumulates(s) ==
    LET r == validate(s.json_data, s.schema)
        kept == {c \in Calls : state[c].schema_errors.items # <<>>}
        shared == IF kept = {} THEN <<>>
                  ELSE state[CHOOSE c \in kept : TRUE].schema_errors.items
    IN  CASE r.exc = "none" ->
                [s EXCEPT !.status = SCHEMA_VALID, !.schema_errors = PyList(<<>>)]
          [] r.exc = "ValidationError" ->
                [s EXCEPT !.status = SCHEMA_INVALID,
                          !.schema_errors = PyList(Append(shared, PyStr(r.msg)))]
          [] OTHER ->
                [s EXCEPT !.status = SCHEMA_INVALID,
                          !.schema_errors =
                              PyList(Append(shared,
                                  PyStr("Schema validation error: " \o r.msg)))]

schema_validation_node(s) ==
    LET r == validate(s.json_data, s.schema)
    IN  CASE r.exc = "none" ->
                [s EXCEPT !.status = SCHEMA_VALID, !.schema_errors = PyList(<<>>)]
          [] r.exc = "ValidationError" ->
                [s EXCEPT !.status = SCHEMA_INVALID,
                          !.schema_errors = StrList(<<r.msg>>)]
          [] OTHER ->
                [s EXCEPT !.status = SCHEMA_INVALID,
                          !.schema_errors =
                              StrList(<<"Schema validation error: " \o r.msg>>)]

\* Mutant: the edge never leads to the judge.
should_continue_to_semantic_never(s) == "final_assessment"

\* Mutant: the edge leads to the judge's node whatever the status.
should_continue_to_semantic_always(s) == "semantic_validation"

\* The conditional edge after schema_validation.
should_continue_to_semantic(s) ==
    IF s.status = SCHEMA_VALID THEN "semantic_validation" ELSE "final_assessment"

\* The request sent to the judge: the system prompt carries the rules joined by
\* newlines, the human prompt the document and the rules as a bullet list.
BuildMessages(s) ==
    [system |-> JoinStrs("\n", s.custom_rules),
     human |-> [json_data |-> s.json_data,
                rules |-> JoinStrs("\n", [i \in DOMAIN s.custom_rules |->
                                              "- " \o s.custom_rules[i]])]]

\* Whether semantic_validation_node gets as far as self.llm.invoke.
InvokesJudge(s) == s.status # SCHEMA_INVALID

\* Mutant: the handler records the cause and leaves the status as it was.
SemanticFailure_keeps_status(s, cause) ==
    [s EXCEPT !.semantic_errors = StrList(<<"Semantic validation error: " \o cause>>)]

\* Mutant: the handler also empties the rules of the request.
SemanticFailure_drops_rules(s, cause) ==
    [s EXCEPT !.status = SEMANTIC_INVALID,
              !.semantic_errors = StrList(<<"Semantic validation error: " \o cause>>),
              !.custom_rules = <<>>]

\* The outer handler of semantic_validation_node: except Exception as e.
SemanticFailure(s, cause) ==
    [s EXCEPT !.status = SEMANTIC_INVALID,
              !.semantic_errors = StrList(<<"Semantic validation error: " \o cause>>)]

\* Mutant: the decode error is swallowed and the state left untouched.
ParseFailure_swallowed(s) == s

\* The inner handler of semantic_validation_node: except json.JSONDecodeError.
ParseFailure(s) ==
    [s EXCEPT !.status = SEMANTIC_INVALID,
              !.semantic_errors = StrList(<<"Failed to parse LLM validation response">>)]

\* Mutant: a passing answer's warnings are kept as the semantic errors.
semantic_validation_node_keeps_warnings(s, reply) ==
    IF s.status = SCHEMA_INVALID
    THEN [s EXCEPT !.semantic_errors =
                       StrList(<<"Skipped due to schema validation failure">>)]
    ELSE IF reply.kind = "raise" THEN SemanticFailure(s, reply.msg)
    ELSE LET parsed == json_loads(reply.content)
         IN  CASE parsed.exc = "JSONDecodeError" -> ParseFailure(s)
               [] parsed.exc = "TypeError" -> SemanticFailure(s, parsed.msg)
               [] OTHER ->
                    LET validation_result == parsed.value
                        is_valid == dict_get(validation_result, "is_valid", PyBool(FALSE))
                    IN  IF is_valid.exc # "none"
                        THEN SemanticFailure(s, NoGetMessage(validation_result))
                        ELSE IF py_truthy(is_valid.value)
                        THEN [s EXCEPT !.status = SEMANTIC_VALID,
                                       !.semantic_errors =
                                           dict_get(validation_result, "warnings",
                                               PyList(<<>>)).value]
                        ELSE [s EXCEPT !.status = SEMANTIC_INVALID,
                                       !.semantic_errors =
                                           dict_get(validation_result, "errors",
                                               StrList(<<"Semantic validation failed">>)).value]

\* semantic_validation_node, given what self.llm.invoke does when it is called.
semantic_validation_node(s, reply) ==
    IF s.status = SCHEMA_INVALID
    THEN [s EXCEPT !.semantic_errors =
                       StrList(<<"Skipped due to schema validation failure">>)]
    ELSE IF reply.kind = "raise" THEN SemanticFailure(s, reply.msg)
    ELSE LET parsed == json_loads(reply.content)
         IN  CASE parsed.exc = "JSONDecodeError" -> ParseFailure(s)
               [] parsed.exc = "TypeError" -> SemanticFailure(s, parsed.msg)
               [] OTHER ->
                    LET validation_result == parsed.value
                        is_valid == dict_get(validation_result, "is_valid", PyBool(FALSE))
                    IN  IF is_valid.exc # "none"
                        THEN SemanticFailure(s, NoGetMessage(validation_result))
                        ELSE IF py_truthy(is_valid.value)
                        THEN [s EXCEPT !.status = SEMANTIC_VALID,
                                       !.semantic_errors = PyList(<<>>)]
                        ELSE [s EXCEPT !.status = SEMANTIC_INVALID,
                                       !.semantic_errors =
                                           dict_get(validation_result, "errors",
                                               StrList(<<"Semantic validation failed">>)).value]

SuccessSummary == "JSON data is valid according to both schema and semantic rules."

\* Mutant: the summary looks at the schema errors alone.
_generate_summary_schema_only(s) ==
    IF ~py_truthy(s.schema_errors) THEN [exc |-> "none", value |-> SuccessSummary]
    ELSE LET schema_part == py_join("; ", s.schema_errors)
         IN  IF schema_part.exc # "none" THEN [exc |-> schema_part.exc]
             ELSE [exc |-> "none",
                   value |-> "JSON data is invalid. Issues found: "
                                 \o "Schema validation failed: " \o schema_part.value]

\* _generate_summary: the text, or the TypeError of a join over a value that
\* cannot be joined.
_generate_summary(s) ==
    IF s.is_valid THEN [exc |-> "none", value |-> SuccessSummary]
    ELSE LET schema_part ==
                 IF py_truthy(s.schema_errors) THEN py_join("; ", s.schema_errors)
                 ELSE [exc |-> "none", value |-> ""]
             semantic_part ==
                 IF py_truthy(s.semantic_errors) THEN py_join("; ", s.semantic_errors)
                 ELSE [exc |-> "none", value |-> ""]
         IN  IF schema_part.exc # "none" THEN [exc |-> schema_part.exc]
             ELSE IF semantic_part.exc # "none" THEN [exc |-> semantic_part.exc]
             ELSE LET issues ==
                          (IF py_truthy(s.schema_errors)
                           THEN <<"Schema validation failed: " \o schema_part.value>>
                           ELSE <<>>)
                          \o
                          (IF py_truthy(s.semantic_errors)
                           THEN <<"Semantic validation failed: " \o semantic_part.value>>
                           ELSE <<>>)
                  IN  [exc |-> "none",
                       value |-> "JSON data is invalid. Issues found: "
                                     \o JoinStrs(" | ", issues)]

\* Mutant: overall validity forgets the semantic outcome.
overall_validity_schema_only(status) ==
    status \in {SCHEMA_VALID, SEMANTIC_VALID, SEMANTIC_INVALID}

\* The overall validity final_assessment_node computes from the status it finds.
overall_validity(status) ==
    LET schema_valid == status \in {SCHEMA_VALID, SEMANTIC_VALID, SEMANTIC_INVALID}
        semantic_valid == status = SEMANTIC_VALID
    IN  schema_valid /\ semantic_valid

\* Mutant: final assessment itself writes the "skipped" message for a state
\* that failed its schema.
final_assessment_node_marks_skipped(s) ==
    LET s1 == [s EXCEPT !.is_valid = overall_validity(s.status),
                        !.status = COMPLETE,
                        !.semantic_errors =
                            IF s.status = SCHEMA_INVALID
                            THEN StrList(<<"Skipped due to schema validation failure">>)
                            ELSE @]
        schema_len == py_len(s1.schema_errors)
        semantic_len == py_len(s1.semantic_errors)
        summary == _generate_summary(s1)
    IN  IF schema_len.exc # "none" THEN [state |-> s1, exc |-> schema_len.exc]
        ELSE IF semantic_len.exc # "none" THEN [state |-> s1, exc |-> semantic_len.exc]
        ELSE IF summary.exc # "none" THEN [state |-> s1, exc |-> summary.exc]
        ELSE [state |->
                  [s1 EXCEPT !.validation_report =
                      [overall_valid |-> s1.is_valid,
                       schema_validation |->
                           [passed |-> schema_len.value = 0, errors |-> s1.schema_errors],
                       semantic_validation |->
                           [passed |-> semantic_len.value = 0,
                            errors |-> s1.semantic_errors],
                       summary |-> summary.value]],
              exc |-> "none"]

\* final_assessment_node: the state it leaves and the exception it raises, if
\* any.  is_valid and status are assigned before the report is built.
final_assessment_node(s) ==
    LET s1 == [s EXCEPT !.is_valid = overall_validity(s.status),
                        !.status = COMPLETE]
        schema_len == py_len(s1.schema_errors)
        semantic_len == py_len(s1.semantic_errors)
        summary == _generate_summary(s1)
    IN  IF schema_len.exc # "none" THEN [state |-> s1, exc |-> schema_len.exc]
        ELSE IF semantic_len.exc # "none" THEN [state |-> s1, exc |-> semantic_len.exc]
        ELSE IF summary.exc # "none" THEN [state |-> s1, exc |-> summary.exc]
        ELSE [state |->
                  [s1 EXCEPT !.validation_report =
                      [overall_valid |-> s1.is_valid,
                       schema_validation |->
                           [passed |-> schema_len.value = 0, errors |-> s1.schema_errors],
                       semantic_validation |->
                           [passed |-> semantic_len.value = 0,
                            errors |-> s1.semantic_errors],
                       summary |-> summary.value]],
              exc |-> "none"]

\* Mutant: a call starts out marked valid.
initial_state_valid_by_default(json_data, schema, custom_rules) ==
    [json_data |-> json_data,
     schema |-> schema,
     custom_rules |-> custom_rules,
     status |-> PENDING,
     schema_errors |-> PyList(<<>>),
     semantic_errors |-> PyList(<<>>),
     is_valid |-> TRUE,
     validation_report |-> <<>>]

\* The ValidationState validate_json builds for one call.
initial_state(json_data, schema, custom_rules) ==
    [json_data |-> json_data,
     schema |-> schema,
     custom_rules |-> custom_rules,
     status |-> PENDING,
     schema_errors |-> PyList(<<>>),
     semantic_errors |-> PyList(<<>>),
     is_valid |-> FALSE,
     validation_report |-> <<>>]

-----------------------------------------------------------------------------
(* The runs *)

Requests ==
    {initial_state(d, sch, r) : d \in Documents, sch \in Schemas, r \in RuleLists}

Init ==
    /\ state \in [Calls -> Requests]
    /\ pc = [c \in Calls |-> "schema_validation"]
    /\ llm_calls = [c \in Calls |-> <<>>]
    /\ escaped = [c \in Calls |-> "none"]
    /\ trail = [c \in Calls |-> <<PENDING>>]

SchemaValidation(c) ==
    /\ pc[c] = "schema_validation"
    /\ LET s == schema_validation_node(state[c])
       IN  /\ state' = [state EXCEPT ![c] = s]
           /\ pc' = [pc EXCEPT ![c] = should_continue_to_semantic(s)]
           /\ trail' = [trail EXCEPT ![c] = Append(@, s.status)]
    /\ UNCHANGED <<llm_calls, escaped>>

SemanticValidation(c) ==
    /\ pc[c] = "semantic_validation"
    /\ \E reply \in JudgeBehaviours :
          /\ state' = [state EXCEPT ![c] = semantic_validation_node(state[c], reply)]
          /\ trail' = [trail EXCEPT ![c] = Append(@, state'[c].status)]
          /\ llm_calls' =
                 IF InvokesJudge(state[c])
                 THEN [llm_calls EXCEPT ![c] =
                          Append(@, [request |-> BuildMessages(state[c]), reply |-> reply])]
                 ELSE llm_calls
    /\ pc' = [pc EXCEPT ![c] = "final_assessment"]
    /\ UNCHANGED escaped

\* Mutant: the workflow keeps one ValidationState on the validator, so the
\* state final_assessment leaves is the state of every call.
FinalAssessment_shared_state(c) ==
    /\ pc[c] = "final_assessment"
    /\ LET r == final_assessment_node(state[c])
       IN  /\ state' = [d \in Calls |-> r.state]
           /\ pc' = [pc EXCEPT ![c] = IF r.exc = "none" THEN "END" ELSE "raised"]
           /\ escaped' = [escaped EXCEPT ![c] = r.exc]
           /\ trail' = [trail EXCEPT ![c] = Append(@, r.state.status)]
    /\ UNCHANGED llm_calls

FinalAssessment(c) ==
    /\ pc[c] = "final_assessment"
    /\ LET r == final_assessment_node(state[c])
       IN  /\ state' = [state EXCEPT ![c] = r.state]
           /\ pc' = [pc EXCEPT ![c] = IF r.exc = "none" THEN "END" ELSE "raised"]
           /\ escaped' = [escaped EXCEPT ![c] = r.exc]
           /\ trail' = [trail EXCEPT ![c] = Append(@, r.state.status)]
    /\ UNCHANGED llm_calls

Next ==
    \E c \in Calls :
        \/ SchemaValidation(c)
        \/ SemanticValidation(c)
        \/ FinalAssessment(c)

Spec == Init /\ [][Next]_vars

-----------------------------------------------------------------------------
(* final_assessment_node and _generate_summary as functions of their       *)
(* argument: applied to every ValidationState of the declared type, the    *)
(* states with both error lists filled included, and to every state the    *)
(* two earlier nodes can hand over.                                        *)

ErrorLists ==
    {StrList(<<>>),
     StrList(<<"'name' is a required property">>),
     StrList(<<"Version is not semantic", "Created timestamp is in the future">>)}

AssessableStates ==
    {[initial_state(ValidDoc, SampleSchema, <<>>) EXCEPT
          !.status = st, !.schema_errors = se, !.semantic_errors = me] :
        st \in {SCHEMA_INVALID, SEMANTIC_INVALID, SEMANTIC_VALID},
        se \in ErrorLists, me \in ErrorLists}
    \cup
    {LET s == schema_validation_node(req)
     IN  IF should_continue_to_semantic(s) = "semantic_validation"
         THEN semantic_validation_node(s, reply) ELSE s :
        req \in Requests, reply \in JudgeBehaviours}

InitAssessment ==
    /\ state \in [Calls -> AssessableStates]
    /\ pc = [c \in Calls |-> "final_assessment"]
    /\ llm_calls = [c \in Calls |-> <<>>]
    /\ escaped = [c \in Calls |-> "none"]
    /\ trail = [c \in Calls |-> <<state[c].status>>]

NextAssessment == \E c \in Calls : FinalAssessment(c)

SpecAssessment == InitAssessment /\ [][NextAssessment]_vars

-----------------------------------------------------------------------------
(* Vocabulary of the properties *)

\* The workflow of call c has run to its end and validate_json returns.
Done(c) == pc[c] = "END"
\* Call c is over: it returned, or an exception left it.
Over(c) == pc[c] \in {"END", "raised"}
\* What validate_json returns: final_state["validation_report"].
Report(c) == state[c].validation_report

\* The document of call c satisfies / violates its schema (the schema being one).
Satisfies(c) == validate(state[c].json_data, state[c].schema).exc = "none"
Violates(c) == validate(state[c].json_data, state[c].schema).exc = "ValidationError"

\* The status the schema_validation node and the semantic phase left.
StructuralRan(c) == Len(trail[c]) >= 2
StructuralPassed(c) == StructuralRan(c) /\ trail[c][2] = SCHEMA_VALID
SemanticRan(c) == StructuralPassed(c) /\ Len(trail[c]) >= 3
SemanticPhase(c) == trail[c][3]

\* The one answer the judge gave call c.
Reply(c) == llm_calls[c][1].reply
IsText(reply) == reply.kind = "message" /\ reply.content.t = "str"
Unparseable(reply) == IsText(reply) /\ json_loads(reply.content).exc = "JSONDecodeError"
\* The answer parses to a JSON object whose is_valid is (Python-)true.
SaysValid(reply) ==
    /\ IsText(reply)
    /\ json_loads(reply.content).exc = "none"
    /\ json_loads(reply.content).value.t = "dict"
    /\ py_truthy(dict_get(json_loads(reply.content).value, "is_valid", PyBool(FALSE)).value)

-----------------------------------------------------------------------------
(* C1: a document that violates its schema is reported invalid, whatever   *)
(* the rules and the judge: validate_json returns a report, whose          *)
(* schema_validation.passed and overall_valid are both false.              *)
C1_SchemaViolationReportedInvalid ==
    \A c \in Calls :
        Violates(c) =>
            /\ pc[c] # "raised"
            /\ Done(c) =>
                  /\ Report(c).schema_validation.passed = FALSE
                  /\ Report(c).overall_valid = FALSE

C1_Witness ==
    \E c \in Calls :
        /\ Done(c) /\ Violates(c)
        /\ state[c].custom_rules # <<>>
        /\ Report(c).overall_valid = FALSE

(* C2: for a document that violates its schema the semantic error list, in *)
(* the final state and in the report, is exactly the "Skipped" sentinel.   *)
C2_SkippedSentinel ==
    \A c \in Calls :
        (Done(c) /\ Violates(c)) =>
            /\ state[c].semantic_errors =
                   StrList(<<"Skipped due to schema validation failure">>)
            /\ Report(c).semantic_validation.errors =
                   StrList(<<"Skipped due to schema validation failure">>)

(* C3: every run ends with status COMPLETE and a report; no exception      *)
(* leaves any of the three nodes, whatever the judge does or returns.      *)
C3_NoExceptionEscapes ==
    \A c \in Calls :
        /\ escaped[c] = "none"
        /\ pc[c] # "raised"
        /\ Over(c) => (state[c].status = COMPLETE /\ DOMAIN Report(c) # {})

(* C4: overall_valid is true exactly when the structural phase passed and  *)
(* the semantic phase ended SEMANTIC_VALID, which is when the judge's      *)
(* answer parsed to an object with a true is_valid.                        *)
C4_OverallValidIff ==
    \A c \in Calls :
        /\ Done(c) =>
              (Report(c).overall_valid = TRUE
                  <=> (StructuralPassed(c) /\ SemanticRan(c)
                         /\ SemanticPhase(c) = SEMANTIC_VALID))
        /\ SemanticRan(c) =>
              (SemanticPhase(c) = SEMANTIC_VALID <=> SaysValid(Reply(c)))

C4_Witness ==
    /\ \E c \in Calls : Done(c) /\ Report(c).overall_valid = TRUE
    /\ \E c \in Calls :
          /\ Done(c) /\ StructuralPassed(c)
          /\ Report(c).overall_valid = FALSE

(* C5: the judge is called exactly once in a run whose structural          *)
(* validation passed and never in a run whose structural validation        *)
(* failed; no failed or malformed answer is followed by a second call.     *)
C5_JudgeCalledOnceOrNever ==
    \A c \in Calls :
        /\ Len(llm_calls[c]) <= 1
        /\ (StructuralRan(c) /\ ~StructuralPassed(c)) => Len(llm_calls[c]) = 0
        /\ Over(c) => Len(llm_calls[c]) = (IF StructuralPassed(c) THEN 1 ELSE 0)

C5_Witness ==
    /\ \E c \in Calls :
          Over(c) /\ Len(llm_calls[c]) = 1 /\ Reply(c).kind = "raise"
    /\ \E c \in Calls : Over(c) /\ Len(llm_calls[c]) = 0

(* C6 as stated: a text of the judge that is no JSON, for a structurally   *)
(* valid document, ends in semantic_validation.passed = false, semantic    *)
(* errors ["Failed to parse semantic validation response"] and             *)
(* overall_valid = false.                                                  *)
C6_Original ==
    \A c \in Calls :
        (Over(c) /\ StructuralPassed(c) /\ Unparseable(Reply(c))) =>
            /\ Done(c)
            /\ Report(c).semantic_validation.passed = FALSE
            /\ Report(c).semantic_validation.errors =
                   StrList(<<"Failed to parse semantic validation response">>)
            /\ Report(c).overall_valid = FALSE

(* C6 as amended: the same, with the message the code gives:               *)
(* ["Failed to parse LLM validation response"].                            *)
C6_UnparseableReply ==
    \A c \in Calls :
        (Over(c) /\ StructuralPassed(c) /\ Unparseable(Reply(c))) =>
            /\ Done(c)
            /\ Report(c).semantic_validation.passed = FALSE
            /\ Report(c).semantic_validation.errors =
                   StrList(<<"Failed to parse LLM validation response">>)
            /\ Report(c).overall_valid = FALSE

C6_Witness ==
    \E c \in Calls :
        /\ Done(c) /\ StructuralPassed(c) /\ Unparseable(Reply(c))
        /\ Report(c).semantic_validation.passed = FALSE

(* C7: when the judge call raises for a structurally valid document, the   *)
(* semantic phase ends SEMANTIC_INVALID with exactly one message, the      *)
(* cause behind the prefix "Semantic validation error: ", and the report   *)
(* has semantic_validation.passed = false and overall_valid = false.       *)
C7_JudgeRaises ==
    \A c \in Calls :
        (SemanticRan(c) /\ Reply(c).kind = "raise") =>
            /\ SemanticPhase(c) = SEMANTIC_INVALID
            /\ state[c].semantic_errors =
                   StrList(<<"Semantic validation error: " \o Reply(c).msg>>)
            /\ Len(state[c].semantic_errors.items) = 1
            /\ pc[c] # "raised"
            /\ Done(c) =>
                  /\ Report(c).semantic_validation.passed = FALSE
                  /\ Report(c).semantic_validation.errors = state[c].semantic_errors
                  /\ Report(c).overall_valid = FALSE

C7_Witness ==
    \E c \in Calls :
        /\ Done(c) /\ SemanticRan(c) /\ Reply(c).kind = "raise"
        /\ Report(c).overall_valid = FALSE

(* C8: the summary is the fixed success text exactly when overall_valid is *)
(* true; a structurally valid document whose judge answers is_valid=true,  *)
(* errors=[] gets overall_valid = true, both sections passed with empty    *)
(* error lists, and the success text.                                      *)
C8_SuccessSummary ==
    \A c \in Calls :
        /\ Done(c) =>
              (Report(c).summary =
                   "JSON data is valid according to both schema and semantic rules."
                 <=> Report(c).overall_valid = TRUE)
        /\ (Over(c) /\ StructuralPassed(c)
              /\ Reply(c) = [kind |-> "message",
                             content |-> PyStr("{\"is_valid\": true, \"errors\": []}")]) =>
              /\ Done(c)
              /\ Report(c).overall_valid = TRUE
              /\ Report(c).schema_validation = [passed |-> TRUE, errors |-> PyList(<<>>)]
              /\ Report(c).semantic_validation = [passed |-> TRUE, errors |-> PyList(<<>>)]
              /\ Report(c).summary =
                     "JSON data is valid according to both schema and semantic rules."

C8_Witness ==
    /\ \E c \in Calls :
          /\ Done(c) /\ Report(c).overall_valid = TRUE
          /\ Reply(c).content = PyStr("{\"is_valid\": true, \"errors\": []}")
    /\ \E c \in Calls :
          /\ Done(c) /\ StructuralPassed(c)
          /\ Report(c).overall_valid = FALSE

(* C9: for a structurally valid document and an empty rule list the        *)
(* semantic phase passes (semantic_validation.passed = true, no semantic   *)
(* errors, overall_valid = true) whatever the judge returns or does.       *)
C9_EmptyRulesPass ==
    \A c \in Calls :
        (Over(c) /\ Satisfies(c) /\ state[c].custom_rules = <<>>) =>
            /\ Done(c)
            /\ Report(c).semantic_validation = [passed |-> TRUE, errors |-> PyList(<<>>)]
            /\ Report(c).overall_valid = TRUE

(* C10: once the schema_validation node has run, schema_errors is empty    *)
(* exactly when the structural phase passed; a document that satisfies its *)
(* schema passes it, and its report has schema_validation.passed = true    *)
(* and schema_validation.errors = [].                                      *)
C10_SchemaErrorsEmptyIffPassed ==
    \A c \in Calls :
        /\ StructuralRan(c) =>
              /\ (state[c].schema_errors = PyList(<<>>) <=> StructuralPassed(c))
              /\ (Satisfies(c) <=> StructuralPassed(c))
        /\ (Done(c) /\ Satisfies(c)) =>
              Report(c).schema_validation = [passed |-> TRUE, errors |-> PyList(<<>>)]

C10_Witness ==
    /\ \E c \in Calls :
          /\ Done(c) /\ Satisfies(c)
          /\ Report(c).schema_validation.passed = TRUE
    /\ \E c \in Calls :
          /\ StructuralRan(c) /\ ~Satisfies(c)
          /\ state[c].schema_errors # PyList(<<>>)

\* The checker itself fails on the schema of call c (it is no schema).
CheckerFault(c) ==
    validate(state[c].json_data, state[c].schema).exc \notin {"none", "ValidationError"}

(* C11: when the structural checker itself fails, the run does not crash:  *)
(* the structural phase is failed, schema_errors is exactly one message    *)
(* behind the prefix "Schema validation error: ", the judge is not called, *)
(* and the report has overall_valid = false.                               *)
C11_CheckerFaultRecovered ==
    \A c \in Calls :
        CheckerFault(c) =>
            /\ pc[c] # "raised"
            /\ Len(llm_calls[c]) = 0
            /\ StructuralRan(c) =>
                  /\ trail[c][2] = SCHEMA_INVALID
                  /\ Len(state[c].schema_errors.items) = 1
                  /\ state[c].schema_errors =
                         StrList(<<"Schema validation error: "
                                     \o validate(state[c].json_data, state[c].schema).msg>>)
            /\ Done(c) =>
                  /\ Report(c).overall_valid = FALSE
                  /\ Report(c).schema_validation.passed = FALSE

C11_Witness ==
    \E c \in Calls :
        /\ Done(c) /\ CheckerFault(c)
        /\ state[c].schema = MalformedSchema
        /\ Report(c).overall_valid = FALSE

\* Calls c and d were given the same (document, schema, rules).
SameRequest(c, d) ==
    /\ state[c].json_data = state[d].json_data
    /\ state[c].schema = state[d].schema
    /\ state[c].custom_rules = state[d].custom_rules

\* The judge has answered equal requests equally, as far as it was asked.
DeterministicJudge ==
    \A c, d \in Calls :
        \A i \in DOMAIN llm_calls[c], j \in DOMAIN llm_calls[d] :
            llm_calls[c][i].request = llm_calls[d][j].request
                => llm_calls[c][i].reply = llm_calls[d][j].reply

(* C12: two validate_json calls on the same validator with identical       *)
(* (document, schema, rules), against a judge that answers equal requests  *)
(* equally, end alike and return identical reports, in whatever order      *)
(* their steps ran: nothing one run leaves behind reaches the other.       *)
C12_Idempotent ==
    \A c, d \in Calls :
        (SameRequest(c, d) /\ Over(c) /\ Over(d) /\ DeterministicJudge) =>
            /\ pc[c] = pc[d]
            /\ escaped[c] = escaped[d]
            /\ Report(c) = Report(d)
            /\ state[c] = state[d]

C12_Witness ==
    \E c, d \in Calls :
        /\ c # d
        /\ SameRequest(c, d) /\ Done(c) /\ Done(d) /\ DeterministicJudge
        /\ Len(llm_calls[c]) = 1 /\ Len(llm_calls[d]) = 1
        /\ Report(c) = Report(d)
        /\ Report(c).semantic_validation.passed = FALSE

\* The run of call c taken alone: the states its own request and its own
\* judge answer lead to, node after node.
AloneInitial(c) ==
    initial_state(state[c].json_data, state[c].schema, state[c].custom_rules)
AloneAfterSchema(c) == schema_validation_node(AloneInitial(c))
AloneAfterSemantic(c) ==
    IF should_continue_to_semantic(AloneAfterSchema(c)) = "semantic_validation"
    THEN semantic_validation_node(AloneAfterSchema(c), Reply(c))
    ELSE AloneAfterSchema(c)
AloneFinal(c) == final_assessment_node(AloneAfterSemantic(c))

(* C13: calls whose node steps interleave arbitrarily share no workflow    *)
(* state: at every point the status, schema_errors, semantic_errors,       *)
(* is_valid and report of a call are those its own request and its own     *)
(* judge answer produce, so each call returns the report (or ends in the   *)
(* exception) of its run alone.                                            *)
C13_CallsIndependent ==
    \A c \in Calls :
        CASE pc[c] = "schema_validation" -> state[c] = AloneInitial(c)
          [] pc[c] = "semantic_validation" -> state[c] = AloneAfterSchema(c)
          [] pc[c] = "final_assessment" ->
                /\ state[c] = AloneAfterSemantic(c)
                /\ Len(llm_calls[c]) =
                       (IF AloneAfterSchema(c).status = SCHEMA_VALID THEN 1 ELSE 0)
          [] OTHER ->
                /\ state[c] = AloneFinal(c).state
                /\ escaped[c] = AloneFinal(c).exc
                /\ Done(c) <=> AloneFinal(c).exc = "none"
                /\ Done(c) => Report(c) = AloneFinal(c).state.validation_report

C13_Witness ==
    \E c, d \in Calls :
        /\ c # d
        /\ Done(c) /\ Report(c).overall_valid = TRUE
        /\ pc[d] = "final_assessment" /\ state[d].status = SEMANTIC_INVALID
        /\ ~SameRequest(c, d)

\* The answer is JSON, but no JSON object: a list, a string, a number, null.
WrongShape(reply) ==
    /\ IsText(reply)
    /\ json_loads(reply.content).exc = "none"
    /\ json_loads(reply.content).value.t # "dict"

(* C14: an answer of the judge that parses as JSON but is no object with   *)
(* is_valid/errors is treated as a parsing failure: the semantic phase is  *)
(* failed and the semantic errors are exactly the fixed parse-failure      *)
(* message (in the wording of the specification or in that of the code).   *)
C14_WrongShapeIsParseFailure ==
    \A c \in Calls :
        (SemanticRan(c) /\ WrongShape(Reply(c))) =>
            /\ SemanticPhase(c) = SEMANTIC_INVALID
            /\ state[c].semantic_errors \in
                   {StrList(<<"Failed to parse semantic validation response">>),
                    StrList(<<"Failed to parse LLM validation response">>)}

(* C15: in every terminal state of a run in which the judge was invoked,   *)
(* semantic_errors is empty exactly when the semantic phase passed, and    *)
(* the report's semantic_validation.passed is true exactly when the phase  *)
(* ended SEMANTIC_VALID, for every answer of the judge, is_valid = false   *)
(* with an empty errors list included.                                     *)
C15_SemanticErrorsEmptyIffPassed ==
    \A c \in Calls :
        (Done(c) /\ Len(llm_calls[c]) > 0) =>
            /\ (state[c].semantic_errors = PyList(<<>>)
                   <=> SemanticPhase(c) = SEMANTIC_VALID)
            /\ (Report(c).semantic_validation.passed = TRUE
                   <=> SemanticPhase(c) = SEMANTIC_VALID)

\* The ways through the status values that the claim allows.
ForwardPaths ==
    {<<PENDING, SCHEMA_VALID, SEMANTIC_VALID, COMPLETE>>,
     <<PENDING, SCHEMA_VALID, SEMANTIC_INVALID, COMPLETE>>,
     <<PENDING, SCHEMA_INVALID, COMPLETE>>}

IsPrefix(p, q) == Len(p) <= Len(q) /\ \A i \in 1..Len(p) : p[i] = q[i]

(* C16: along every run the status only moves forward through              *)
(* PENDING -> {SCHEMA_VALID | SCHEMA_INVALID} ->                           *)
(* {SEMANTIC_VALID | SEMANTIC_INVALID | skip} -> COMPLETE: a run starts in *)
(* PENDING, a run that returned is in COMPLETE, no status is entered       *)
(* twice, and no step is taken from COMPLETE.                              *)
C16_StatusMovesForward ==
    \A c \in Calls :
        /\ \E path \in ForwardPaths : IsPrefix(trail[c], path)
        /\ state[c].status = trail[c][Len(trail[c])]
        /\ \A i, j \in DOMAIN trail[c] : trail[c][i] = trail[c][j] => i = j
        /\ pc[c] = "schema_validation" <=> state[c].status = PENDING
        /\ Done(c) => state[c].status = COMPLETE
        /\ state[c].status = COMPLETE =>
              /\ Over(c)
              /\ ~ENABLED (SchemaValidation(c) \/ SemanticValidation(c)
                             \/ FinalAssessment(c))

C16_Witness ==
    /\ \E c \in Calls :
          trail[c] = <<PENDING, SCHEMA_VALID, SEMANTIC_INVALID, COMPLETE>> /\ Done(c)
    /\ \E c \in Calls : trail[c] = <<PENDING, SCHEMA_INVALID, COMPLETE>> /\ Done(c)

\* The semantic phase of call c is settled: it set its status, or the skip
\* path was taken.
SemanticSettled(c) ==
    \/ state[c].status \in {SEMANTIC_VALID, SEMANTIC_INVALID, COMPLETE}
    \/ state[c].status = SCHEMA_INVALID /\ pc[c] = "final_assessment"

(* C17: once the status has left PENDING no later step changes             *)
(* schema_errors, and once the semantic phase has set SEMANTIC_VALID or    *)
(* SEMANTIC_INVALID (or the skip path was taken) no later step changes     *)
(* semantic_errors; the lists of the report are the lists those phases     *)
(* set.                                                                    *)
C17_ErrorListsFrozen ==
    [][\A c \in Calls :
          /\ state[c].status # PENDING =>
                state'[c].schema_errors = state[c].schema_errors
          /\ SemanticSettled(c) =>
                state'[c].semantic_errors = state[c].semantic_errors
          /\ (pc[c] = "final_assessment" /\ pc'[c] = "END") =>
                /\ state'[c].validation_report.schema_validation.errors =
                       state[c].schema_errors
                /\ state'[c].validation_report.semantic_validation.errors =
                       state[c].semantic_errors]_vars

C17_Witness ==
    \E c \in Calls :
        /\ Done(c)
        /\ trail[c][2] = SCHEMA_VALID
        /\ Report(c).semantic_validation.errors = StrList(<<"e1", "e2">>)
        /\ Report(c).schema_validation.errors = PyList(<<>>)

\* The two sections of a failure summary, each present when its list is
\* non-empty, and the sections that are present joined by " | ".
SchemaSection(c) ==
    IF py_truthy(state[c].schema_errors)
    THEN <<"Schema validation failed: " \o py_join("; ", state[c].schema_errors).value>>
    ELSE <<>>
SemanticSection(c) ==
    IF py_truthy(state[c].semantic_errors)
    THEN <<"Semantic validation failed: "
              \o py_join("; ", state[c].semantic_errors).value>>
    ELSE <<>>
Sections(c) ==
    LET both == SchemaSection(c) \o SemanticSection(c)
    IN  CASE Len(both) = 0 -> ""
          [] Len(both) = 1 -> both[1]
          [] Len(both) = 2 -> both[1] \o " | " \o both[2]

(* C18: when overall_valid is false the summary holds the section          *)
(* "Schema validation failed: <schema errors joined>" exactly when         *)
(* schema_errors is non-empty and the section "Semantic validation         *)
(* failed: <semantic errors joined>" exactly when semantic_errors is       *)
(* non-empty, the sections that are present joined by the delimiter, the   *)
(* schema section first.                                                   *)
C18_FailureSummarySections ==
    \A c \in Calls :
        (Done(c) /\ Report(c).overall_valid = FALSE) =>
            Report(c).summary = "JSON data is invalid. Issues found: " \o Sections(c)

C18_Witness ==
    /\ \E c \in Calls :
          /\ Done(c) /\ Report(c).overall_valid = FALSE
          /\ Report(c).summary =
                 "JSON data is invalid. Issues found: Semantic validation failed: e1; e2"
    /\ \E c \in Calls :
          /\ Done(c) /\ Report(c).overall_valid = FALSE
          /\ Report(c).summary =
                 "JSON data is invalid. Issues found: Schema validation failed: 'name' is a required property | Semantic validation failed: Version is not semantic; Created timestamp is in the future"


-----------------------------------------------------------------------------
\* C19: in every state in which final assessment can run, schema_valid as
\* the code computes it (status in {SCHEMA_VALID, SEMANTIC_VALID,
\* SEMANTIC_INVALID}) is true exactly when the structural phase passed, so
\* the overall validity the code computes (schema_valid and status ==
\* SEMANTIC_VALID) equals "structural passed and semantic passed", and that
\* is the is_valid the node writes.
C19_SchemaValidIsStructuralPassed ==
    \A c \in Calls :
        pc[c] = "final_assessment" =>
            LET schema_valid ==
                    state[c].status \in {SCHEMA_VALID, SEMANTIC_VALID, SEMANTIC_INVALID}
                structuralOk == StructuralPassed(c)
                semanticOk == state[c].status = SEMANTIC_VALID
                result == final_assessment_node(state[c])
            IN  /\ schema_valid = structuralOk
                /\ structuralOk = Satisfies(c)
                /\ overall_validity(state[c].status) = (structuralOk /\ semanticOk)
                /\ result.exc = "none" =>
                       result.state.is_valid = (structuralOk /\ semanticOk)

\* One call waits for final assessment after both phases passed, another
\* after the structural phase failed.
C19_Witness ==
    /\ \E c \in Calls :
          /\ pc[c] = "final_assessment" /\ StructuralPassed(c)
          /\ state[c].status = SEMANTIC_VALID
    /\ \E c \in Calls :
          /\ pc[c] = "final_assessment" /\ ~StructuralPassed(c)
          /\ state[c].status = SCHEMA_INVALID


-----------------------------------------------------------------------------
\* C20: is_valid and validation_report are written only by the final
\* assessment step: in every state before it is_valid is false and
\* validation_report is empty, no other step changes either of them, and a
\* run that returns has had its report built exactly once.
BeforeFinalAssessment(c) ==
    pc[c] \in {"schema_validation", "semantic_validation", "final_assessment"}

Built(c) == Len(SelectSeq(trail[c], LAMBDA st : st = COMPLETE))

C20_WrittenOnlyByFinalAssessment ==
    /\ [](\A c \in Calls :
            /\ BeforeFinalAssessment(c) =>
                   /\ state[c].is_valid = FALSE
                   /\ DOMAIN Report(c) = {}
                   /\ Built(c) = 0
            /\ Done(c) => (DOMAIN Report(c) # {} /\ Built(c) = 1))
    /\ [][\A c \in Calls :
            (\/ state'[c].is_valid # state[c].is_valid
             \/ DOMAIN state'[c].validation_report # DOMAIN state[c].validation_report
             \/ Built(c)' # Built(c))
            => (pc[c] = "final_assessment" /\ pc'[c] \in {"END", "raised"})]_vars

\* One call has both phases behind it and is still unmarked and without a
\* report; another has returned a report that says valid.
C20_Witness ==
    /\ \E c \in Calls :
          /\ pc[c] = "final_assessment" /\ state[c].status = SEMANTIC_VALID
          /\ state[c].is_valid = FALSE /\ DOMAIN Report(c) = {}
    /\ \E c \in Calls :
          /\ Done(c) /\ state[c].is_valid = TRUE
          /\ Report(c).overall_valid = TRUE


-----------------------------------------------------------------------------
\* C21: no step of the workflow modifies the request: json_data, schema and
\* custom_rules stay what the caller passed through every step, so they are
\* the caller's values in the final state on every path.
RequestOf(s) ==
    [json_data |-> s.json_data, schema |-> s.schema, custom_rules |-> s.custom_rules]

C21_RequestUnmodified ==
    [][\A c \in Calls : RequestOf(state'[c]) = RequestOf(state[c])]_vars

\* Both calls carry rules and have returned: one failed its schema, the
\* other passed it and its judge failed.
C21_Witness ==
    /\ \A c \in Calls : Done(c) /\ state[c].custom_rules # <<>>
    /\ \E c \in Calls : ~StructuralPassed(c)
    /\ \E c \in Calls :
          /\ SemanticRan(c) /\ Reply(c).kind = "raise"
          /\ state[c].json_data = ValidDoc


-----------------------------------------------------------------------------
\* C22: every report with overall_valid = false carries at least one error
\* message: one of the two error lists is non-empty, so one of the two
\* sections has passed = false and the summary names a failed section.
C22_InvalidReportHasMessage ==
    \A c \in Calls :
        (Done(c) /\ Report(c).overall_valid = FALSE) =>
            /\ \/ py_truthy(Report(c).schema_validation.errors)
               \/ py_truthy(Report(c).semantic_validation.errors)
            /\ \/ Report(c).schema_validation.passed = FALSE
               \/ Report(c).semantic_validation.passed = FALSE
            /\ Report(c).summary # "JSON data is invalid. Issues found: "


-----------------------------------------------------------------------------
\* C23: every report with overall_valid = true has schema_validation.passed
\* = true, semantic_validation.passed = true and both error lists empty.
C23_ValidReportIsClean ==
    \A c \in Calls :
        (Done(c) /\ Report(c).overall_valid = TRUE) =>
            /\ Report(c).schema_validation.passed = TRUE
            /\ Report(c).semantic_validation.passed = TRUE
            /\ Report(c).schema_validation.errors = PyList(<<>>)
            /\ Report(c).semantic_validation.errors = PyList(<<>>)

\* A call returned a report that says valid, after a judge that said so
\* while listing errors and warnings of its own.
C23_Witness ==
    \E c \in Calls :
        /\ Done(c) /\ Report(c).overall_valid = TRUE
        /\ SemanticRan(c) /\ IsText(Reply(c))
        /\ HasKey(json_loads(Reply(c).content).value, "warnings")


-----------------------------------------------------------------------------
\* C24: the semantic validation node is entered only in status SCHEMA_VALID:
\* no run enters it with status SCHEMA_INVALID, so its skip branch never
\* runs, the "Skipped due to schema validation failure" message is never
\* written, and every entry into the node asks the judge.
Skipped == StrList(<<"Skipped due to schema validation failure">>)

C24_SemanticEnteredOnlySchemaValid ==
    \A c \in Calls :
        /\ pc[c] = "semantic_validation" =>
               (state[c].status = SCHEMA_VALID /\ InvokesJudge(state[c]))
        /\ state[c].semantic_errors # Skipped
        /\ (Len(trail[c]) >= 2 /\ trail[c][2] = SCHEMA_INVALID) =>
               (pc[c] # "semantic_validation" /\ llm_calls[c] = <<>>)

\* One call is about to enter the semantic node, in status SCHEMA_VALID;
\* the other failed its schema and went past the node to its end.
C24_Witness ==
    /\ \E c \in Calls :
          pc[c] = "semantic_validation" /\ state[c].status = SCHEMA_VALID
    /\ \E c \in Calls :
          /\ Done(c) /\ trail[c] = <<PENDING, SCHEMA_INVALID, COMPLETE>>
          /\ state[c].semantic_errors = PyList(<<>>)


-----------------------------------------------------------------------------
\* C25: when the judge's response has is_valid true, the semantic phase
\* passes with an empty error list whatever the response's errors and
\* warnings fields contain; the run returns, and its report is the clean
\* valid report, in which nothing of the response's warnings or errors
\* appears.
AnswersTrue(reply) ==
    /\ IsText(reply)
    /\ json_loads(reply.content).exc = "none"
    /\ json_loads(reply.content).value.t = "dict"
    /\ dict_get(json_loads(reply.content).value, "is_valid", PyBool(FALSE)).value
           = PyBool(TRUE)

CleanReport ==
    [overall_valid |-> TRUE,
     schema_validation |-> [passed |-> TRUE, errors |-> PyList(<<>>)],
     semantic_validation |-> [passed |-> TRUE, errors |-> PyList(<<>>)],
     summary |-> SuccessSummary]

C25_ValidAnswerIgnoresErrorsAndWarnings ==
    \A c \in Calls :
        (SemanticRan(c) /\ AnswersTrue(Reply(c))) =>
            /\ SemanticPhase(c) = SEMANTIC_VALID
            /\ state[c].semantic_errors = PyList(<<>>)
            /\ pc[c] # "raised"
            /\ Done(c) => Report(c) = CleanReport

\* A call returned after a judge that said valid and listed an error and a
\* warning of its own.
C25_Witness ==
    \E c \in Calls :
        /\ Done(c) /\ SemanticRan(c) /\ AnswersTrue(Reply(c))
        /\ dict_get(json_loads(Reply(c).content).value, "warnings", PyNone).value
               = StrList(<<"old format">>)
        /\ dict_get(json_loads(Reply(c).content).value, "errors", PyNone).value
               = StrList(<<"ignored">>)


-----------------------------------------------------------------------------
\* C26: a judge response that is a JSON object without an is_valid key is
\* treated as invalid: the status becomes SEMANTIC_INVALID, is_valid is
\* never set and a returned report has overall_valid false; without an
\* errors key the semantic error list is exactly ["Semantic validation
\* failed"], with one it is the response's errors value.
Answer(c) == json_loads(Reply(c).content).value

LacksIsValid(reply) ==
    /\ IsText(reply)
    /\ json_loads(reply.content).exc = "none"
    /\ json_loads(reply.content).value.t = "dict"
    /\ ~HasKey(json_loads(reply.content).value, "is_valid")

C26_MissingIsValidIsInvalid ==
    \A c \in Calls :
        (SemanticRan(c) /\ LacksIsValid(Reply(c))) =>
            /\ SemanticPhase(c) = SEMANTIC_INVALID
            /\ state[c].is_valid = FALSE
            /\ Done(c) => Report(c).overall_valid = FALSE
            /\ ~HasKey(Answer(c), "errors") =>
                   state[c].semantic_errors = StrList(<<"Semantic validation failed">>)
            /\ HasKey(Answer(c), "errors") =>
                   \E i \in DOMAIN Answer(c).pairs :
                       /\ Answer(c).pairs[i][1] = "errors"
                       /\ state[c].semantic_errors = Answer(c).pairs[i][2]

\* One call returned after the answer {} and the other after the answer
\* {"errors": ["e1"]}.
C26_Witness ==
    /\ \E c \in Calls :
          /\ Done(c) /\ SemanticRan(c) /\ LacksIsValid(Reply(c))
          /\ Answer(c) = PyDict(<<>>)
          /\ Report(c).semantic_validation.errors = StrList(<<"Semantic validation failed">>)
    /\ \E c \in Calls :
          /\ Done(c) /\ SemanticRan(c) /\ LacksIsValid(Reply(c))
          /\ Report(c).semantic_validation.errors = StrList(<<"e1">>)

====
